---- MODULE Spec2Model ----
(***************************************************************************)
(* bw_add_sshkeys.py: extract SSH keys from a Bitwarden vault and load     *)
(* them into the SSH agent.                                                *)
(*                                                                         *)
(* Python strings are TLA+ strings (Len, SubSeq and \o work on them in     *)
(* TLC), dicts are records/functions whose DOMAIN is the set of keys that  *)
(* are present, lists are sequences.  Every external process (bw, ssh-add) *)
(* is a nondeterministic choice of exit code and standard output.          *)
(***************************************************************************)
EXTENDS Integers, Sequences, FiniteSets, TLC

VARIABLES
    pc,        \* position of the single thread of control
    environ,   \* os.environ of this process
    args,      \* argparse.Namespace of main
    session,   \* local `session` of main
    folder_id, \* local `folder_id` of main
    items,     \* local `items` of main / parameter of add_ssh_keys
    i,         \* 1-based position of the for loop of add_ssh_keys
    ssh_key,   \* local `ssh_key` of add_ssh_keys
    fetched,   \* history: one record per fetch_key call
    calls,     \* history: every subprocess.run invocation, in order
    log,       \* history: calls of logging.warning / error / critical, in order
    stdout,    \* lines printed by this process
    proc_stdout, \* stdout of the latest `bw list` process that exited with 0
    exc        \* exception that left the program unhandled, or NoExc

vars == <<pc, environ, args, session, folder_id, items, i, ssh_key,
          fetched, calls, log, stdout, proc_stdout, exc>>

(***************************************************************************)
(* Bounds                                                                  *)
(***************************************************************************)
MaxItems == 2      \* longest item list returned by `bw list items`

(***************************************************************************)
(* Python helpers                                                          *)
(***************************************************************************)
StartsWith(s, p) == Len(s) >= Len(p) /\ SubSeq(s, 1, Len(p)) = p

EndsWith(s, p) == Len(s) >= Len(p) /\ SubSeq(s, Len(s) - Len(p) + 1, Len(s)) = p

\* JSON null / Python None where a string may also occur
None == [none |-> TRUE]

Str(s) == [str |-> s]

\* isinstance(v, str)
IsStr(v) == "str" \in DOMAIN v

\* dict(d, k=v)
DictWith(d, k, v) == [n \in (DOMAIN d) \cup {k} |-> IF n = k THEN v ELSE d[n]]

\* d.get(k, "") for dicts of strings
GetOr(d, k, default) == IF k \in DOMAIN d THEN d[k] ELSE default

NoExc == "none"

(***************************************************************************)
(* Command line defaults (parse_args)                                      *)
(***************************************************************************)
FolderName == "ssh-agent"

CustomField == "private"

PassphraseField == "passphrase"

\* os.path.realpath(__file__)
SelfPath == "/opt/bw_add_sshkeys.py"

(***************************************************************************)
(* Inputs: process environments                                            *)
(***************************************************************************)
EmptyEnv == [n \in {} |-> ""]

Environments ==
    { EmptyEnv,
      [BW_SESSION |-> "envtok", SSH_ASKPASS |-> "/usr/bin/ssh-askpass",
       SSH_KEY_PASSPHRASE |-> "stale"],
      [SSH_ASKPASS |-> SelfPath, SSH_KEY_PASSPHRASE |-> "s3cr3t"],
      [SSH_ASKPASS |-> SelfPath] }

ArgSets ==
    [ session    : {"", "argtok"},
      legacymode : BOOLEAN,
      passphrase : {"", "dflt"},
      quiet      : BOOLEAN ]

NoArgs == [session |-> "", legacymode |-> FALSE, passphrase |-> "", quiet |-> FALSE]

(***************************************************************************)
(* Inputs: vault items as `bw list items` prints them                      *)
(***************************************************************************)
F(n, v) == [name |-> n, value |-> v]

A(id, fn) == [id |-> id, fileName |-> fn]

PemNote == "-----BEGIN n"

Items ==
    { \* structured key only
      [name |-> "deploy-key", id |-> "i1", notes |-> None,
       sshKey |-> [privateKey |-> "-----BEGIN k"]],
      \* structured key next to every other key source
      [name |-> "all", id |-> "i2", notes |-> Str(PemNote),
       sshKey |-> [privateKey |-> "-----BEGIN k\n"],
       fields |-> <<F("private", "mykey"), F("passphrase", "s3cr3t")>>,
       attachments |-> <<A("a1", "id_rsa"), A("a2", "mykey")>>],
      \* empty structured key, empty passphrase field
      [name |-> "empty", id |-> "i3", notes |-> None,
       sshKey |-> [privateKey |-> ""],
       fields |-> <<F("passphrase", "")>>],
      \* attachment named by the custom field listed after an id_ attachment
      [name |-> "id-first", id |-> "i4", notes |-> Str(PemNote),
       fields |-> <<F("private", "mykey"), F("passphrase", "s3cr3t")>>,
       attachments |-> <<A("a1", "id_rsa"), A("a2", "mykey")>>],
      \* the same attachments in the other order
      [name |-> "named-first", id |-> "i5", notes |-> None,
       fields |-> <<F("private", "mykey")>>,
       attachments |-> <<A("a2", "mykey"), A("a1", "id_rsa")>>],
      \* custom field names a nonexistent attachment
      [name |-> "fallback", id |-> "i6", notes |-> Str("plain"),
       fields |-> <<F("private", "missing")>>,
       attachments |-> <<A("a3", "other"), A("a1", "id_ed25519")>>],
      \* no candidate attachment, PEM notes ending in two newlines
      [name |-> "note", id |-> "i7", notes |-> Str("-----BEGIN n\n\n"),
       attachments |-> <<A("a3", "other")>>],
      \* two passphrase fields, PEM notes
      [name |-> "two-pw", id |-> "i8", notes |-> Str(PemNote),
       fields |-> <<F("user", "u"), F("passphrase", "first"),
                    F("passphrase", "second")>>],
      \* nothing at all, not even a notes entry
      [name |-> "bare", id |-> "i9"],
      \* id_ attachment, no notes entry
      [name |-> "att-only", id |-> "i10",
       attachments |-> <<A("a1", "id_rsa")>>] }

\* the lists of at most n distinct elements of S
RECURSIVE ListsUpTo(_, _)
ListsUpTo(S, n) ==
    IF n = 0 THEN {<<>>}
    ELSE LET shorter == ListsUpTo(S, n - 1)
             longest == {t \in shorter : Len(t) = n - 1}
         IN  shorter \cup
             UNION { {Append(t, x) : x \in {y \in S : \A k \in 1..Len(t) : t[k] # y}}
                     : t \in longest }

\* a vault lists each of its items once
ItemLists == ListsUpTo(Items, MaxItems)

\* standard output of `bw get attachment --raw`
AttachmentOutputs == {"-----BEGIN a"}

(***************************************************************************)
(* Logging and subprocess records                                          *)
(***************************************************************************)
WARNING == "WARNING"

ERROR == "ERROR"

CRITICAL == "CRITICAL"

\* a record passed to logging.warning / error / critical; item is the
\* position of the item being processed, 0 outside add_ssh_keys
LogRec(level, msg, item) == [level |-> level, msg |-> msg, item |-> item]

\* lines 315-320 for a run without --debug: --quiet raises the level of the
\* root logger to CRITICAL
LogLevel(a) == IF a.quiet THEN CRITICAL ELSE "INFO"

\* Logger.isEnabledFor: INFO < WARNING < ERROR < CRITICAL
IsEnabledFor(level, threshold) ==
    \/ threshold = "INFO"
    \/ threshold = WARNING /\ level \in {WARNING, ERROR, CRITICAL}
    \/ threshold = ERROR /\ level \in {ERROR, CRITICAL}
    \/ threshold = CRITICAL /\ level = CRITICAL

\* subprocess.CalledProcessError raised by run(check=True); no call of this
\* program captures stderr, so error.stderr is None
CalledProcessError(cmd) == [type |-> "CalledProcessError", cmd |-> cmd, stderr |-> None]

(***************************************************************************)
(* Initial state: the interpreter has started with some environment        *)
(***************************************************************************)
Init ==
    /\ pc = "start"
    /\ environ \in Environments
    /\ args = NoArgs
    /\ session = ""
    /\ folder_id = ""
    /\ items = <<>>
    /\ i = 0
    /\ ssh_key = ""
    /\ fetched = <<>>
    /\ calls = <<>>
    /\ log = <<>>
    /\ stdout = <<>>
    /\ proc_stdout = None
    /\ exc = NoExc

(***************************************************************************)
(* Outputs of the vault CLI                                                *)
(***************************************************************************)
\* standard output that json.loads rejects
Garbage == [garbage |-> TRUE]

Json(v) == [json |-> v]

\* json.loads raises json.JSONDecodeError (a ValueError) on malformed text
JsonOk(out) == "json" \in DOMAIN out

Folder(id, name) == [id |-> id, name |-> name]

FolderOutputs ==
    { Json(<<>>),
      Json(<<Folder("f1", "ssh-agent")>>),
      Json(<<Folder("f0", "ssh-agent-old"), Folder("f1", "ssh-agent"),
             Folder("f2", "ssh-agent")>>),
      Json(<<Folder("f0", "my-ssh-agent")>>),
      Garbage }

ItemOutputs == {Json(l) : l \in ItemLists} \cup {Garbage}

\* standard output of `bw --raw login` / `bw --raw unlock`
SessionOutputs == {"newtok"}

ExitCodes == {0, 1}

(***************************************************************************)
(* main: the try block's exception handlers (lines 337-342)                *)
(***************************************************************************)
\* log records the handlers of main emit for exception e
MainExceptLog(e) ==
    IF e.type = "RuntimeError"
    THEN <<LogRec(CRITICAL, e.msg, 0)>>
    ELSE IF IsStr(e.stderr) /\ e.stderr.str # ""
         THEN <<LogRec(CRITICAL, "bw error", 0)>>
         ELSE <<>>

(***************************************************************************)
(* Entry point (lines 344-349)                                             *)
(***************************************************************************)
IsAskpass(env) ==
    /\ GetOr(env, "SSH_ASKPASS", "") # ""
    /\ GetOr(env, "SSH_ASKPASS", "") = SelfPath

\* mutant: the else of line 348 is missing, main runs after the print
Askpass_then_main ==
    /\ pc = "start"
    /\ IsAskpass(environ)
    /\ stdout' = Append(stdout, GetOr(environ, "SSH_KEY_PASSPHRASE", "None"))
    /\ \E a \in ArgSets : args' = a
    /\ pc' = "get_session"
    /\ UNCHANGED <<proc_stdout, environ, session, folder_id, items, i, ssh_key,
                   fetched, calls, log, exc>>

\* print(os.environ.get("SSH_KEY_PASSPHRASE"))
Askpass ==
    /\ pc = "start"
    /\ IsAskpass(environ)
    /\ stdout' = Append(stdout, GetOr(environ, "SSH_KEY_PASSPHRASE", "None"))
    /\ pc' = "exit"
    /\ UNCHANGED <<proc_stdout, environ, args, session, folder_id, items, i, ssh_key,
                   fetched, calls, log, exc>>

\* main() up to the try block: parse_args and logging setup
MainStart ==
    /\ pc = "start"
    /\ ~IsAskpass(environ)
    /\ \E a \in ArgSets : args' = a
    /\ pc' = "get_session"
    /\ UNCHANGED <<proc_stdout, environ, session, folder_id, items, i, ssh_key,
                   fetched, calls, log, stdout, exc>>

(***************************************************************************)
(* get_session (lines 14-46), called from main line 326                    *)
(***************************************************************************)
BwCall(cmd, extra, rc) == [cmd |-> cmd, argv |-> extra, env |-> environ, rc |-> rc]

\* mutant: BW_SESSION is preferred to the token given on the command line
ExistingSession_env_first(arg) ==
    IF GetOr(environ, "BW_SESSION", "") # "" THEN GetOr(environ, "BW_SESSION", "") ELSE arg

\* the token found without calling the vault CLI, "" if there is none
ExistingSession(arg) == IF arg = "" THEN GetOr(environ, "BW_SESSION", "") ELSE arg

\* mutant: run(check=False) for login/unlock, a failure goes unnoticed
GetSession_unchecked ==
    /\ pc = "get_session"
    /\ IF ExistingSession(args.session) # ""
       THEN /\ session' = ExistingSession(args.session)
            /\ UNCHANGED calls
       ELSE \E logged \in ExitCodes, rc \in ExitCodes, out \in SessionOutputs :
              /\ calls' = calls \o
                    <<BwCall("bw login --check", <<>>, logged),
                      BwCall("bw --raw " \o (IF logged # 0 THEN "login" ELSE "unlock"),
                             <<>>, rc)>>
              /\ session' = IF rc # 0 THEN "" ELSE out
    /\ pc' = "get_folders"
    /\ UNCHANGED <<proc_stdout, environ, args, folder_id, items, i, ssh_key, fetched,
                   log, stdout, exc>>

GetSession ==
    /\ pc = "get_session"
    /\ IF ExistingSession(args.session) # ""
       THEN /\ session' = ExistingSession(args.session)
            /\ pc' = "get_folders"
            /\ UNCHANGED <<calls, log>>
       ELSE \E logged \in ExitCodes, rc \in ExitCodes, out \in SessionOutputs :
              LET operation == IF logged # 0 THEN "login" ELSE "unlock"
                  made == <<BwCall("bw login --check", <<>>, logged),
                            BwCall("bw --raw " \o operation, <<>>, rc)>>
              IN  /\ calls' = calls \o made
                  /\ IF rc # 0
                     THEN /\ log' = log \o MainExceptLog(CalledProcessError("bw"))
                          /\ pc' = "done"
                          /\ UNCHANGED session
                     ELSE /\ session' = out
                          /\ pc' = "get_folders"
                          /\ UNCHANGED log
    /\ UNCHANGED <<proc_stdout, environ, args, folder_id, items, i, ssh_key, fetched,
                   stdout, exc>>

(***************************************************************************)
(* get_folders (lines 49-71), called from main line 330                    *)
(***************************************************************************)
\* mutant: the first folder of the search result is taken, exact match or not
MatchingFolder_first_result(folders, foldername) ==
    IF folders = <<>> THEN "null" ELSE folders[1].id

\* str([k["id"] for k in folders if k["name"] == foldername][0]), or "null"
MatchingFolder(folders, foldername) ==
    LET found == SelectSeq(folders, LAMBDA k : k.name = foldername)
    IN  IF found = <<>> THEN "null" ELSE found[1].id

GetFolders ==
    /\ pc = "get_folders"
    /\ \E rc \in ExitCodes, out \in FolderOutputs :
         /\ calls' = Append(calls, BwCall("bw list folders", <<FolderName, session>>, rc))
         /\ IF rc # 0
            THEN /\ log' = log \o MainExceptLog(CalledProcessError("bw"))
                 /\ pc' = "done"
                 /\ UNCHANGED <<folder_id, proc_stdout, exc>>
            ELSE IF ~JsonOk(out)
            THEN /\ exc' = "JSONDecodeError"
                 /\ pc' = "crashed"
                 /\ proc_stdout' = out
                 /\ UNCHANGED <<folder_id, log>>
            ELSE /\ folder_id' = MatchingFolder(out.json, FolderName)
                 /\ pc' = "folder_items"
                 /\ proc_stdout' = out
                 /\ UNCHANGED <<log, exc>>
    /\ UNCHANGED <<environ, args, session, items, i, ssh_key, fetched, stdout>>

(***************************************************************************)
(* folder_items (lines 74-90), called from main line 333; on success main  *)
(* enters add_ssh_keys (line 336)                                          *)
(***************************************************************************)
\* position reached by the for loop of add_ssh_keys when it moves to item n
LoopPc(list, n) == IF n > Len(list) THEN "done" ELSE "fetch_key"

FolderItems ==
    /\ pc = "folder_items"
    /\ \E rc \in ExitCodes, out \in ItemOutputs :
         /\ calls' = Append(calls, BwCall("bw list items", <<folder_id, session>>, rc))
         /\ IF rc # 0
            THEN /\ log' = log \o MainExceptLog(CalledProcessError("bw"))
                 /\ pc' = "done"
                 /\ UNCHANGED <<items, i, proc_stdout, exc>>
            ELSE IF ~JsonOk(out)
            THEN /\ exc' = "JSONDecodeError"
                 /\ pc' = "crashed"
                 /\ proc_stdout' = out
                 /\ UNCHANGED <<items, i, log>>
            ELSE /\ items' = out.json
                 /\ i' = 1
                 /\ pc' = LoopPc(out.json, 1)
                 /\ proc_stdout' = out
                 /\ UNCHANGED <<log, exc>>
    /\ UNCHANGED <<environ, args, session, folder_id, ssh_key, fetched, stdout>>

(***************************************************************************)
(* fetch_from_attachment (lines 164-212)                                   *)
(***************************************************************************)
\* an attachment fetch: exit code and standard output of the vault CLI
AttachmentResults == [rc : ExitCodes, out : AttachmentOutputs]

\* [k for k in item["fields"] if k["name"] == name], empty when the item
\* has no fields entry
NamedFields(item, name) ==
    IF "fields" \in DOMAIN item
    THEN SelectSeq(item.fields, LAMBDA k : k.name = name)
    ELSE <<>>

\* lines 168-176: value of the first custom field named keyname, "" when the
\* item has no fields or no such field (the broad except swallows both)
PrivateKeyFile(item, keyname) ==
    IF NamedFields(item, keyname) = <<>> THEN "" ELSE NamedFields(item, keyname)[1].value

\* lines 179-181: the list comprehension; `a and b or c` is `(a and b) or c`
CandidateAttachments(item, private_key_file) ==
    SelectSeq(item.attachments,
              LAMBDA k : \/ (private_key_file # "" /\ k.fileName = private_key_file)
                         \/ StartsWith(k.fileName, "id_"))

\* the result of a call: how it ended, the value returned, the records
\* logged and the processes run on the way
Result(outcome, value, logged, made) ==
    [outcome |-> outcome, value |-> value, log |-> logged, calls |-> made]

fetch_from_attachment(sess, item, keyname, att, n) ==
    LET private_key_file == PrivateKeyFile(item, keyname)
        logged == IF NamedFields(item, keyname) = <<>>
                  THEN <<LogRec(WARNING, "No field found", n)>>
                  ELSE <<>>
        found == CandidateAttachments(item, private_key_file)
    IN  IF found = <<>>
        THEN Result("RuntimeWarning", "No attachment found", logged, <<>>)
        ELSE LET made == <<[cmd |-> "bw get attachment",
                           argv |-> <<found[1].id, item.id, sess>>,
                           env |-> environ, rc |-> att.rc, item |-> n]>>
             IN  IF att.rc # 0
                 THEN Result("RuntimeError", "Could not get attachment from Bitwarden",
                             logged, made)
                 ELSE Result("return", att.out, logged, made)

(***************************************************************************)
(* fetch_key (lines 133-161)                                               *)
(***************************************************************************)
\* line 134
HasStructuredKey(item) ==
    "sshKey" \in DOMAIN item /\ GetOr(item.sshKey, "privateKey", "") # ""

\* lines 143-154: the attachment step; "skipped" when the item has no
\* attachments entry, otherwise fetch_key logs what fetch_from_attachment raised
AttachmentStep(sess, item, keyname, att, n) ==
    IF "attachments" \notin DOMAIN item
    THEN Result("skipped", "", <<>>, <<>>)
    ELSE LET r == fetch_from_attachment(sess, item, keyname, att, n)
         IN  IF r.outcome = "RuntimeWarning"
             THEN Result("caught", "", Append(r.log, LogRec(WARNING, r.value, n)), r.calls)
             ELSE IF r.outcome = "RuntimeError"
             THEN Result("caught", "", Append(r.log, LogRec(ERROR, r.value, n)), r.calls)
             ELSE r

\* lines 156-161: item["notes"] raises KeyError when the item has no notes entry
NotesStep(item) ==
    IF "notes" \notin DOMAIN item
    THEN Result("KeyError", "notes", <<>>, <<>>)
    ELSE IF IsStr(item.notes) /\ StartsWith(item.notes.str, "-----BEGIN")
    THEN Result("return", item.notes.str, <<>>, <<>>)
    ELSE Result("RuntimeError", "Could not find an SSH key on item", <<>>, <<>>)

\* mutant: the handler of line 153 is missing, a failed fetch ends fetch_key
LegacyFetch_hard(sess, item, keyname, att, n) ==
    LET a == AttachmentStep(sess, item, keyname, att, n)
    IN  IF a.outcome = "return"
        THEN a
        ELSE IF a.calls # <<>>
        THEN Result("RuntimeError", "Could not get attachment from Bitwarden", a.log, a.calls)
        ELSE LET f == NotesStep(item)
             IN  Result(f.outcome, f.value, a.log, a.calls)

\* mutant: the handler of line 151 is missing, an item whose attachments
\* hold no candidate is given up
LegacyFetch_notfound_hard(sess, item, keyname, att, n) ==
    LET a == AttachmentStep(sess, item, keyname, att, n)
    IN  IF a.outcome = "return"
        THEN a
        ELSE IF a.outcome = "caught" /\ a.calls = <<>>
        THEN Result("RuntimeError", "No attachment found", a.log, a.calls)
        ELSE LET f == NotesStep(item)
             IN  Result(f.outcome, f.value, a.log, a.calls)

\* lines 141-161: the legacy fallbacks, attachments then notes
LegacyFetch(sess, item, keyname, att, n) ==
    LET a == AttachmentStep(sess, item, keyname, att, n)
    IN  IF a.outcome = "return"
        THEN a
        ELSE LET f == NotesStep(item)
             IN  Result(f.outcome, f.value, a.log, a.calls)

\* mutant: the test of line 138 is missing, every run is a legacy run
fetch_key_always_legacy(sess, item, keyname, legacymode, att, n) ==
    IF HasStructuredKey(item)
    THEN Result("return", item.sshKey.privateKey, <<>>, <<>>)
    ELSE LegacyFetch(sess, item, keyname, att, n)

\* mutant: legacy mode looks at the attachments before the structured key
fetch_key_attachments_first(sess, item, keyname, legacymode, att, n) ==
    IF legacymode /\ "attachments" \in DOMAIN item
       /\ AttachmentStep(sess, item, keyname, att, n).outcome = "return"
    THEN AttachmentStep(sess, item, keyname, att, n)
    ELSE IF HasStructuredKey(item)
    THEN Result("return", item.sshKey.privateKey, <<>>, <<>>)
    ELSE IF ~legacymode
    THEN Result("RuntimeError", "Item does not have an ssh key", <<>>, <<>>)
    ELSE LegacyFetch(sess, item, keyname, att, n)

fetch_key(sess, item, keyname, legacymode, att, n) ==
    IF HasStructuredKey(item)
    THEN Result("return", item.sshKey.privateKey, <<>>, <<>>)
    ELSE IF ~legacymode
    THEN Result("RuntimeError", "Item does not have an ssh key", <<>>, <<>>)
    ELSE LegacyFetch(sess, item, keyname, att, n)

(***************************************************************************)
(* ssh_add (lines 215-247)                                                 *)
(***************************************************************************)
\* mutant: the passphrase is exported without pointing SSH_ASKPASS at this
\* program, and nothing is set for an empty passphrase
AgentEnv_bare(key_pw) ==
    IF key_pw # ""
    THEN DictWith(environ, "SSH_KEY_PASSPHRASE", key_pw)
    ELSE environ

\* lines 219-226
AgentEnv(key_pw) ==
    IF key_pw # ""
    THEN DictWith(DictWith(environ, "SSH_ASKPASS", SelfPath),
                  "SSH_KEY_PASSPHRASE", key_pw)
    ELSE DictWith(environ, "SSH_ASKPASS_REQUIRE", "never")

\* mutant: the line break is appended without looking at the key
NormalizeKey_always(key) == key \o "\n"

\* lines 231-233
NormalizeKey(key) == IF ~EndsWith(key, "\n") THEN key \o "\n" ELSE key

\* lines 235-237
QuietFlag(quiet) == IF quiet THEN "-q" ELSE ""

\* the ssh-add invocation; key and key_pw record the arguments of ssh_add
ssh_add(key, key_pw, quiet, rc, n) ==
    LET made == <<[cmd |-> "ssh-add", argv |-> <<QuietFlag(quiet), "-">>,
                   input |-> NormalizeKey(key), env |-> AgentEnv(key_pw), rc |-> rc,
                   key |-> key, key_pw |-> key_pw, item |-> n]>>
    IN  IF rc # 0
        THEN Result("CalledProcessError", "", <<>>, made)
        ELSE Result("return", "", <<>>, made)

(***************************************************************************)
(* add_ssh_keys (lines 93-130): one loop iteration is FetchKey, followed   *)
(* by SshAdd when fetch_key returned                                       *)
(***************************************************************************)
\* mutant: a non-empty default passphrase is not overridden by the item
ResolvePassphrase_default_wins(item, pwkeyname, pwkey, n) ==
    IF pwkey # "" \/ NamedFields(item, pwkeyname) = <<>>
    THEN Result("return", pwkey, <<>>, <<>>)
    ELSE Result("return", NamedFields(item, pwkeyname)[1].value, <<>>, <<>>)

\* lines 114-125
ResolvePassphrase(item, pwkeyname, pwkey, n) ==
    IF "fields" \notin DOMAIN item
    THEN Result("return", pwkey, <<>>, <<>>)
    ELSE LET named == NamedFields(item, pwkeyname)
         IN  IF named = <<>>
             THEN Result("return", pwkey, <<LogRec(WARNING, "No passphrase field found", n)>>, <<>>)
             ELSE Result("return", named[1].value, <<>>, <<>>)

\* lines 105-112
FetchKey ==
    /\ pc = "fetch_key"
    /\ \E att \in AttachmentResults :
         LET r == fetch_key(session, items[i], CustomField, args.legacymode, att, i)
         IN  /\ fetched' = Append(fetched, [item |-> i, outcome |-> r.outcome,
                                             value |-> r.value])
             /\ calls' = calls \o r.calls
             /\ IF r.outcome = "return"
                THEN /\ ssh_key' = r.value
                     /\ pc' = "ssh_add"
                     /\ log' = log \o r.log
                     /\ UNCHANGED <<i, exc>>
                ELSE IF r.outcome = "RuntimeError"
                THEN /\ log' = log \o r.log \o <<LogRec(ERROR, r.value, i)>>
                     /\ i' = i + 1
                     /\ pc' = LoopPc(items, i + 1)
                     /\ UNCHANGED <<ssh_key, exc>>
                ELSE /\ exc' = r.outcome
                     /\ pc' = "crashed"
                     /\ log' = log \o r.log
                     /\ UNCHANGED <<i, ssh_key>>
    /\ UNCHANGED <<proc_stdout, environ, args, session, folder_id, items, stdout>>

\* mutant: the passphrase is exported through os.environ itself
SshAdd_setenv ==
    /\ pc = "ssh_add"
    /\ \E rc \in ExitCodes :
         LET pw == ResolvePassphrase(items[i], PassphraseField, args.passphrase, i)
             r == ssh_add(ssh_key, pw.value, args.quiet, rc, i)
         IN  /\ calls' = calls \o r.calls
             /\ environ' = AgentEnv(pw.value)
             /\ log' = log \o pw.log \o
                       (IF r.outcome = "return" THEN <<>>
                        ELSE <<LogRec(WARNING, "Could not add key to the SSH agent", i)>>)
    /\ i' = i + 1
    /\ pc' = LoopPc(items, i + 1)
    /\ UNCHANGED <<proc_stdout, args, session, folder_id, items, ssh_key,
                   fetched, stdout, exc>>

\* lines 114-130
SshAdd ==
    /\ pc = "ssh_add"
    /\ \E rc \in ExitCodes :
         LET pw == ResolvePassphrase(items[i], PassphraseField, args.passphrase, i)
             r == ssh_add(ssh_key, pw.value, args.quiet, rc, i)
         IN  /\ calls' = calls \o r.calls
             /\ log' = log \o pw.log \o
                       (IF r.outcome = "return" THEN <<>>
                        ELSE <<LogRec(WARNING, "Could not add key to the SSH agent", i)>>)
    /\ i' = i + 1
    /\ pc' = LoopPc(items, i + 1)
    /\ UNCHANGED <<proc_stdout, environ, args, session, folder_id, items, ssh_key,
                   fetched, stdout, exc>>

Next ==
    \/ Askpass
    \/ MainStart
    \/ GetSession
    \/ GetFolders
    \/ FolderItems
    \/ FetchKey
    \/ SshAdd

Spec == Init /\ [][Next]_vars

(***************************************************************************)
(* Properties                                                              *)
(***************************************************************************)
\* positions in `calls` of the invocations of one command
CallsOf(cmd) == {k \in 1..Len(calls) : calls[k].cmd = cmd}

SshAddCalls == CallsOf("ssh-add")

AttachmentCalls == CallsOf("bw get attachment")

SessionCalls == CallsOf("bw --raw login") \cup CallsOf("bw --raw unlock")

\* item["notes"] is a string starting with the PEM marker
HasPemNotes(item) ==
    "notes" \in DOMAIN item /\ IsStr(item.notes) /\ StartsWith(item.notes.str, "-----BEGIN")

\* a structured key, a candidate attachment or a PEM note
HasKeySource(item) ==
    \/ HasStructuredKey(item)
    \/ /\ "attachments" \in DOMAIN item
       /\ CandidateAttachments(item, PrivateKeyFile(item, CustomField)) # <<>>
    \/ HasPemNotes(item)

\* C1 (as claimed): add_ssh_keys calls fetch_key for every item of the list
\* exactly once, in list order; no failure of one item keeps a later item
\* from being processed or leaves add_ssh_keys.
C1_EveryItemAttempted ==
    /\ Len(fetched) <= Len(items)
    /\ \A k \in 1..Len(fetched) : fetched[k].item = k
    /\ (pc \in {"done", "crashed"} /\ i >= 1) =>
          (Len(fetched) = Len(items) /\ exc = NoExc)

\* C2: an item with a non-empty sshKey.privateKey resolves to exactly that
\* value, in legacy and non-legacy mode, whatever else the item carries, and
\* no attachment is fetched for it.
C2_StructuredKeyWins ==
    \A k \in 1..Len(fetched) :
        LET it == items[fetched[k].item]
        IN  ("sshKey" \in DOMAIN it /\ it.sshKey.privateKey # "") =>
              /\ fetched[k].outcome = "return"
              /\ fetched[k].value = it.sshKey.privateKey
              /\ \A c \in AttachmentCalls : calls[c].item # fetched[k].item

C2_Witness ==
    /\ args.legacymode
    /\ \E k \in 1..Len(fetched) :
         LET it == items[fetched[k].item]
         IN  /\ HasStructuredKey(it)
             /\ "attachments" \in DOMAIN it
             /\ HasPemNotes(it)
             /\ fetched[k].outcome = "return"

\* C3 (as claimed): the attachment fetched is the one whose fileName equals
\* the value of the custom field whenever such an attachment exists; an id_
\* attachment is fetched only when no attachment matches the field value.
C3_NamedAttachmentPreferred ==
    \A c \in AttachmentCalls :
        LET it == items[calls[c].item]
            wanted == PrivateKeyFile(it, CustomField)
            named == {a \in 1..Len(it.attachments) :
                         wanted # "" /\ it.attachments[a].fileName = wanted}
        IN  IF named # {}
            THEN \E a \in named : it.attachments[a].id = calls[c].argv[1]
            ELSE \E a \in 1..Len(it.attachments) :
                    /\ it.attachments[a].id = calls[c].argv[1]
                    /\ StartsWith(it.attachments[a].fileName, "id_")

C5_NoSourceIsKeyNotFound ==
    \A k \in 1..Len(fetched) :
        LET it == items[fetched[k].item]
        IN  /\ fetched[k].outcome = "return" => HasKeySource(it)
            /\ ~HasKeySource(it) =>
                  /\ fetched[k].outcome = "RuntimeError"
                  /\ \A a \in SshAddCalls : calls[a].item # fetched[k].item

\* C6 (as claimed): the text fed to ssh-add ends with exactly one newline.
C6_ExactlyOneNewline ==
    \A a \in SshAddCalls :
        EndsWith(calls[a].input, "\n") /\ ~EndsWith(calls[a].input, "\n\n")

\* C6 (amended): the text fed to ssh-add ends with a newline: a key that
\* does not end with one gets exactly one appended, a key that already ends
\* with a newline is fed unchanged, two or more trailing newlines included.
C6_AtLeastOneNewline ==
    \A a \in SshAddCalls :
        LET key == calls[a].key
            fed == calls[a].input
        IN  /\ EndsWith(fed, "\n")
            /\ SubSeq(fed, 1, Len(key)) = key
            /\ Len(fed) = Len(key) + (IF Len(key) > 0 /\ SubSeq(key, Len(key), Len(key)) = "\n"
                                      THEN 0 ELSE 1)

C6_Witness ==
    /\ \E a \in SshAddCalls : EndsWith(calls[a].key, "\n\n")
    /\ \E a \in SshAddCalls : ~EndsWith(calls[a].key, "\n")

\* C7 (as claimed): with an empty passphrase the environment of ssh-add has
\* SSH_ASKPASS_REQUIRE=never and no SSH_KEY_PASSPHRASE; with a non-empty one
\* it has SSH_ASKPASS set to this program and SSH_KEY_PASSPHRASE set to the
\* passphrase; whatever the inherited environment.
C7_EnvFromPassphrase ==
    \A a \in SshAddCalls :
        LET env == calls[a].env
        IN  IF calls[a].key_pw = ""
            THEN /\ "SSH_ASKPASS_REQUIRE" \in DOMAIN env
                 /\ env["SSH_ASKPASS_REQUIRE"] = "never"
                 /\ "SSH_KEY_PASSPHRASE" \notin DOMAIN env
            ELSE /\ "SSH_ASKPASS" \in DOMAIN env
                 /\ env["SSH_ASKPASS"] = SelfPath
                 /\ "SSH_KEY_PASSPHRASE" \in DOMAIN env
                 /\ env["SSH_KEY_PASSPHRASE"] = calls[a].key_pw

\* the variables of env other than those of `set` are those of the parent
\* environment, with the parent's values
InheritsExcept(env, set) ==
    /\ (DOMAIN env) \ set = (DOMAIN environ) \ set
    /\ DOMAIN environ \subseteq DOMAIN env
    /\ \A v \in (DOMAIN env) \ set : env[v] = environ[v]

\* C7 (amended): the environment of ssh-add is the inherited environment
\* with, for an empty passphrase, SSH_ASKPASS_REQUIRE=never added, so that it
\* carries SSH_KEY_PASSPHRASE exactly when the parent environment does, and,
\* for a non-empty passphrase, SSH_ASKPASS set to this program and
\* SSH_KEY_PASSPHRASE set to the passphrase.
C7_EnvFromPassphraseAndParent ==
    \A a \in SshAddCalls :
        LET env == calls[a].env
        IN  IF calls[a].key_pw = ""
            THEN /\ "SSH_ASKPASS_REQUIRE" \in DOMAIN env
                 /\ env["SSH_ASKPASS_REQUIRE"] = "never"
                 /\ InheritsExcept(env, {"SSH_ASKPASS_REQUIRE"})
            ELSE /\ "SSH_ASKPASS" \in DOMAIN env
                 /\ env["SSH_ASKPASS"] = SelfPath
                 /\ "SSH_KEY_PASSPHRASE" \in DOMAIN env
                 /\ env["SSH_KEY_PASSPHRASE"] = calls[a].key_pw
                 /\ InheritsExcept(env, {"SSH_ASKPASS", "SSH_KEY_PASSPHRASE"})

C7_Witness ==
    /\ \E a \in SshAddCalls :
         calls[a].key_pw = "" /\ "SSH_KEY_PASSPHRASE" \in DOMAIN calls[a].env
    /\ \E a \in SshAddCalls :
         calls[a].key_pw # "" /\ "SSH_KEY_PASSPHRASE" \in DOMAIN environ

\* C8: the passphrase handed to ssh_add is the value of the first custom
\* field named by the passphrase field name when the item has one, the
\* default passphrase otherwise; the item's field wins over the default, and
\* each item is resolved afresh.
C8_PassphraseOfItem ==
    \A a \in SshAddCalls :
        LET it == items[calls[a].item]
            named == IF "fields" \in DOMAIN it
                     THEN {f \in 1..Len(it.fields) : it.fields[f].name = PassphraseField}
                     ELSE {}
        IN  IF named = {}
            THEN calls[a].key_pw = args.passphrase
            ELSE \E f \in named :
                    /\ \A g \in named : f <= g
                    /\ calls[a].key_pw = it.fields[f].value

C8_Witness ==
    /\ args.passphrase # ""
    /\ \E a, b \in SshAddCalls :
         /\ a < b
         /\ calls[a].key_pw = "first"
         /\ calls[b].key_pw = args.passphrase

\* C9 (as claimed): an error during session acquisition, folder lookup or
\* item listing is caught by main, logged at critical level, and never leaves
\* main unhandled.  (The run ends before add_ssh_keys exactly when i = 0.)
C9_FatalErrorsLoggedCritical ==
    (pc \in {"done", "crashed"} /\ i = 0) =>
        /\ exc = NoExc
        /\ \E r \in 1..Len(log) : log[r].level = CRITICAL

\* C10: a failed login or unlock is the last process the run starts, and
\* ssh-add is invoked only once a session is held and the folder listing and
\* the item listing have completed, in that order.
C10_AbortOnSessionFailure ==
    /\ \A c \in SessionCalls :
          calls[c].rc # 0 => (c = Len(calls) /\ pc = "done")
    /\ \A a \in SshAddCalls :
          /\ session # ""
          /\ \A c \in SessionCalls : c < a /\ calls[c].rc = 0
          /\ \E f \in CallsOf("bw list folders"), l \in CallsOf("bw list items") :
                /\ f < l /\ l < a
                /\ calls[f].rc = 0 /\ calls[l].rc = 0
                /\ \A c \in SessionCalls : c < f
    /\ \A c \in AttachmentCalls :
          \E f \in CallsOf("bw list folders"), l \in CallsOf("bw list items") :
             f < l /\ l < c /\ calls[f].rc = 0 /\ calls[l].rc = 0

C10_Witness ==
    /\ \E c \in SessionCalls : calls[c].rc # 0
    /\ pc = "done"

\* get_session has returned to main
SessionHeld == pc \in {"get_folders", "folder_items", "fetch_key", "ssh_add"}

\* C11: with a non-empty token given explicitly or, failing that, in
\* BW_SESSION, get_session returns exactly that token, the explicit one
\* first, and starts no vault CLI process: no login check, login or unlock.
C11_ExistingSessionReused ==
    LET given == args.session
        inherited == IF "BW_SESSION" \in DOMAIN environ THEN environ["BW_SESSION"] ELSE ""
    IN  (pc \notin {"start", "get_session", "exit"} /\ (given # "" \/ inherited # "")) =>
          /\ session = (IF given # "" THEN given ELSE inherited)
          /\ CallsOf("bw login --check") = {}
          /\ SessionCalls = {}

C11_Witness ==
    /\ SessionHeld
    /\ args.session = "argtok"
    /\ "BW_SESSION" \in DOMAIN environ /\ environ["BW_SESSION"] = "envtok"
    /\ session = "argtok"
    /\ calls = <<>>

\* C13: when SSH_ASKPASS equals this program's own path the program only
\* answers as askpass helper: it prints the value of SSH_KEY_PASSPHRASE and
\* exits, without parsing arguments, acquiring a session, calling the vault
\* CLI or invoking ssh-add.
C13_AskpassOnly ==
    ("SSH_ASKPASS" \in DOMAIN environ /\ environ["SSH_ASKPASS"] = SelfPath) =>
        /\ pc \in {"start", "exit"}
        /\ args = NoArgs
        /\ session = ""
        /\ calls = <<>>
        /\ log = <<>>
        /\ pc = "exit" =>
              stdout = <<IF "SSH_KEY_PASSPHRASE" \in DOMAIN environ
                         THEN environ["SSH_KEY_PASSPHRASE"] ELSE "None">>

C13_Witness ==
    /\ pc = "exit"
    /\ environ["SSH_ASKPASS"] = SelfPath
    /\ stdout = <<"s3cr3t">>

\* C12: get_folders returns the id of the first folder of the search result
\* whose name equals the requested name, and the sentinel "null", without
\* raising, when there is none (an empty result included); the item listing
\* is run with the id get_folders returned.
C12_FolderIdOrSentinel ==
    /\ pc = "folder_items" =>
          LET folders == proc_stdout.json
              exact == {k \in 1..Len(folders) : folders[k].name = FolderName}
          IN  /\ exc = NoExc
              /\ IF exact = {}
                 THEN folder_id = "null"
                 ELSE \E k \in exact : /\ \A m \in exact : k <= m
                                       /\ folder_id = folders[k].id
    /\ \A c \in CallsOf("bw list items") : calls[c].argv[1] = folder_id

C12_Witness ==
    /\ pc = "folder_items"
    /\ Len(proc_stdout.json) > 0
    /\ \A k \in 1..Len(proc_stdout.json) : proc_stdout.json[k].name # FolderName
    /\ folder_id = "null"

\* the item has an attachments entry holding a candidate attachment
HasCandidate(item) ==
    /\ "attachments" \in DOMAIN item
    /\ \E a \in 1..Len(item.attachments) :
          \/ StartsWith(item.attachments[a].fileName, "id_")
          \/ \E f \in 1..Len(GetOr(item, "fields", <<>>)) :
                /\ item.fields[f].name = CustomField
                /\ \A g \in 1..(f - 1) : item.fields[g].name # CustomField
                /\ item.fields[f].value # ""
                /\ item.fields[f].value = item.attachments[a].fileName

\* C15: in a non-legacy run an item without a non-empty structured key
\* fails with RuntimeError whatever its attachments and notes, no attachment
\* is ever fetched, and such an item is never handed to ssh-add.
C15_NonLegacyStructuredOnly ==
    ~args.legacymode =>
        /\ AttachmentCalls = {}
        /\ \A k \in 1..Len(fetched) :
              LET it == items[fetched[k].item]
              IN  ~("sshKey" \in DOMAIN it /\ it.sshKey.privateKey # "") =>
                    /\ fetched[k].outcome = "RuntimeError"
                    /\ \A a \in SshAddCalls : calls[a].item # fetched[k].item

C15_Witness ==
    /\ pc = "done"
    /\ ~args.legacymode
    /\ \E k, m \in 1..Len(fetched) :
          /\ HasCandidate(items[k]) /\ HasPemNotes(items[k])
          /\ ~HasStructuredKey(items[k])
          /\ fetched[k].outcome = "RuntimeError"
          /\ "notes" \notin DOMAIN items[m]
          /\ fetched[m].outcome = "RuntimeError"

\* C16: in a legacy run, an item without structured key and without
\* candidate attachment (no attachments entry, or none that matches the
\* custom field value or starts with "id_") whose notes are a string starting
\* with "-----BEGIN" resolves to its notes verbatim, and no attachment is
\* fetched for it.
C16_NotesFallback ==
    args.legacymode =>
        \A k \in 1..Len(fetched) :
            LET it == items[fetched[k].item]
            IN  (/\ ~("sshKey" \in DOMAIN it /\ it.sshKey.privateKey # "")
                 /\ ~HasCandidate(it)
                 /\ HasPemNotes(it)) =>
                   /\ fetched[k].outcome = "return"
                   /\ fetched[k].value = it.notes.str
                   /\ \A c \in AttachmentCalls : calls[c].item # fetched[k].item

C16_Witness ==
    /\ args.legacymode
    /\ \E k, m \in 1..Len(fetched) :
          /\ "attachments" \in DOMAIN items[k] /\ ~HasCandidate(items[k])
          /\ fetched[k].outcome = "return" /\ fetched[k].value = "-----BEGIN n\n\n"
          /\ "attachments" \notin DOMAIN items[m] /\ ~HasStructuredKey(items[m])
          /\ fetched[m].outcome = "return" /\ fetched[m].value = PemNote

\* C17: the environment of this process is never changed: every vault CLI
\* process gets the environment the first process got, and SSH_KEY_PASSPHRASE
\* in the environment of an ssh-add process is the passphrase of that very
\* invocation or, failing that, the inherited value; the passphrase of
\* another item is never there.
C17_EnvironUntouched ==
    calls # <<>> =>
        LET first == calls[1].env
        IN  /\ environ = first
            /\ \A c \in 1..Len(calls) :
                  IF calls[c].cmd # "ssh-add"
                  THEN calls[c].env = first
                  ELSE "SSH_KEY_PASSPHRASE" \in DOMAIN calls[c].env =>
                         IF calls[c].key_pw # ""
                         THEN calls[c].env["SSH_KEY_PASSPHRASE"] = calls[c].key_pw
                         ELSE /\ "SSH_KEY_PASSPHRASE" \in DOMAIN first
                              /\ calls[c].env["SSH_KEY_PASSPHRASE"]
                                    = first["SSH_KEY_PASSPHRASE"]

C17_Witness ==
    \E a, b \in SshAddCalls, c \in AttachmentCalls :
        /\ a < c /\ c < b
        /\ calls[a].key_pw = "s3cr3t"
        /\ calls[b].key_pw = ""
        /\ "SSH_KEY_PASSPHRASE" \notin DOMAIN calls[b].env
        /\ "SSH_KEY_PASSPHRASE" \notin DOMAIN calls[c].env

\* the log records that pass the level of the root logger
Emitted == SelectSeq(log, LAMBDA r : IsEnabledFor(r.level, LogLevel(args)))

\* the emitted records about item n (0: outside add_ssh_keys) with a message of msgs
Records(n, msgs) ==
    {r \in 1..Len(Emitted) : Emitted[r].item = n /\ Emitted[r].msg \in msgs}

KeyNotFoundMsgs == {"Item does not have an ssh key", "Could not find an SSH key on item"}

\* C14 (as claimed): every failing step produces exactly one log record of
\* level WARNING or above: a key resolution failure, an attachment fetch
\* failure, an ssh-add failure, and a fatal session or listing failure.
C14_OneRecordPerError ==
    /\ \A k \in 1..Len(fetched) :
          fetched[k].outcome # "return" =>
             Cardinality(Records(fetched[k].item, KeyNotFoundMsgs)) = 1
    /\ \A c \in AttachmentCalls :
          calls[c].rc # 0 =>
             Cardinality(Records(calls[c].item,
                                 {"Could not get attachment from Bitwarden"})) = 1
    /\ \A a \in SshAddCalls :
          calls[a].rc # 0 =>
             Cardinality(Records(calls[a].item,
                                 {"Could not add key to the SSH agent"})) = 1
    /\ (pc \in {"done", "crashed"} /\ i = 0) =>
          Cardinality({r \in 1..Len(Emitted) : Emitted[r].item = 0}) = 1

====
